---- MODULE Spec2Model ----
(***************************************************************************)
(* Model of the expense tracker of src/main.py: the SQLite table           *)
(* `expenses` with its AUTOINCREMENT counter, the start-up routine         *)
(* init_db, the tools add_expense, list_expenses and summarize, and the    *)
(* resource categories.                                                    *)
(*                                                                         *)
(* Representation of values                                                *)
(*   TEXT used in comparisons (dates) is the sequence of the character     *)
(*   codes of the string, so that SQLite's BINARY collation (memcmp, then  *)
(*   the shorter string first) is computed and not assumed.                *)
(*   REAL (IEEE-754 double, 53-bit significand) values are non-negative    *)
(*   multiples of 0.5 written [hi, lo], meaning (hi * 2^53 + lo) * 0.5,    *)
(*   with lo far below 2^53.  Every double addition rounds to nearest,     *)
(*   ties to even.                                                         *)
(*   Python's None is the empty tuple, a given str s is <<s>>.             *)
(***************************************************************************)
EXTENDS Integers, Sequences, FiniteSets, TLC

VARIABLES
    expenses,      \* committed rows of table expenses, in rowid order
    sqliteSeq,     \* sqlite_sequence.seq of expenses: largest rowid ever committed
    writer,        \* holder of the database write lock: "none", "init_db" or a client
    pc,            \* per client: "idle", or "inserted" (INSERT done, commit pending)
    pend,          \* per client: its open transaction (args, row, cur.lastrowid)
    initPc,        \* init_db: "idle", or "testing" (self-test row inserted)
    initRowid,     \* rowid the self-test INSERT of init_db took
    initRuns,      \* init_db runs completed
    catFile,       \* categories.json: "absent", "present" or "unreadable"
    resp,          \* the last response returned to a caller
    history        \* committed inserts, in commit order

vars == <<expenses, sqliteSeq, writer, pc, pend, initPc, initRowid,
          initRuns, catFile, resp, history>>

(***************************************************************************)
(* Bounds                                                                  *)
(***************************************************************************)
\* add_expense calls that commit in one run
MaxRows == 2
\* init_db runs in one run
MaxInit == 2

(***************************************************************************)
(* Inputs                                                                  *)
(***************************************************************************)
\* "2024-01-01"
DJan01 == <<50, 48, 50, 52, 45, 48, 49, 45, 48, 49>>
\* "2024-01-05"
DJan05 == <<50, 48, 50, 52, 45, 48, 49, 45, 48, 53>>
\* "2024-01-31"
DJan31 == <<50, 48, 50, 52, 45, 48, 49, 45, 51, 49>>
\* "2024-1-5": not zero padded, so it sorts after every "2024-01-.."
DLoose == <<50, 48, 50, 52, 45, 49, 45, 53>>

\* the bounds of list_expenses
Dates == {DJan05, DJan31, DLoose}
\* the dates of the inserts, with the DJan31 of UnlabelledArgs
AddDates == {DJan05, DLoose}

\* 42.5
Amt42_5 == [hi |-> 0, lo |-> 85]
\* 4503599627370496.0 = 2^52
AmtBig == [hi |-> 1, lo |-> 0]
\* 0.0
AmtZero == [hi |-> 0, lo |-> 0]

Amounts == {Amt42_5, AmtBig}

CategoryLabels == {"Food & Dining", "test"}
Subcategories == {""}
Notes == {"lunch"}

\* an expense with the empty category, a subcategory and the default note
UnlabelledArgs == <<DJan31, Amt42_5, "", "Groceries", "">>

\* arguments of add_expense: (date, amount, category, subcategory, note)
AddArgs == (AddDates \X Amounts \X CategoryLabels \X Subcategories \X Notes) \cup {UnlabelledArgs}

\* the insert of the first-insert scenario
ScenarioArgs == <<DJan05, Amt42_5, "Food & Dining", "", "lunch">>

\* arguments of add_expense used with concurrent clients
ConcArgs == {ScenarioArgs, <<DJan05, Amt42_5, "test", "", "lunch">>}

\* the (start_date, end_date) of summarize: wide, one day, inverted
SummaryRanges == {<<DJan05, DLoose>>, <<DJan31, DJan31>>, <<DLoose, DJan05>>}

\* the category argument of summarize: None, or a str
CategoryArgs == {<<>>, <<"">>, <<"test">>}

Clients == {"client1", "client2"}

NoResp == [op |-> "none"]
NoExc == [cls |-> "none"]
NoPend == [args |-> <<>>]

(***************************************************************************)
(* TEXT comparison: BINARY collation                                       *)
(***************************************************************************)
RECURSIVE LexCmp(_, _)
LexCmp(a, b) ==
    IF a = <<>> THEN (IF b = <<>> THEN 0 ELSE -1)
    ELSE IF b = <<>> THEN 1
    ELSE IF Head(a) < Head(b) THEN -1
    ELSE IF Head(a) > Head(b) THEN 1
    ELSE LexCmp(Tail(a), Tail(b))

\* faulty variant: the lower bound taken exclusive
BetweenExclusive(d, lo, hi) == LexCmp(d, lo) > 0 /\ LexCmp(d, hi) <= 0

\* date BETWEEN ? AND ?
Between(d, lo, hi) == LexCmp(d, lo) >= 0 /\ LexCmp(d, hi) <= 0

(***************************************************************************)
(* REAL arithmetic                                                         *)
(***************************************************************************)
RECURSIVE Log2(_)
Log2(n) == IF n <= 1 THEN 0 ELSE 1 + Log2(n \div 2)

RECURSIVE Pow2(_)
Pow2(n) == IF n = 0 THEN 1 ELSE 2 * Pow2(n - 1)

\* spacing of the doubles around x, in units of 0.5
Ulp(x) == IF x.hi = 0 THEN 1 ELSE Pow2(Log2(x.hi) + 1)

\* the exact sum
ExactAdd(a, b) == [hi |-> a.hi + b.hi, lo |-> a.lo + b.lo]

\* round to nearest double, ties to the even significand
RoundDouble(x) ==
    LET u == Ulp(x)
        q == x.lo \div u
        r == x.lo % u
    IN  IF r = 0 THEN x
        ELSE IF 2 * r < u THEN [hi |-> x.hi, lo |-> q * u]
        ELSE IF 2 * r > u THEN [hi |-> x.hi, lo |-> (q + 1) * u]
        ELSE [hi |-> x.hi, lo |-> IF q % 2 = 0 THEN q * u ELSE (q + 1) * u]

FloatAdd(a, b) == RoundDouble(ExactAdd(a, b))

DblCmp(a, b) ==
    IF a.hi # b.hi THEN (IF a.hi < b.hi THEN -1 ELSE 1)
    ELSE IF a.lo # b.lo THEN (IF a.lo < b.lo THEN -1 ELSE 1)
    ELSE 0

(***************************************************************************)
(* The table                                                               *)
(***************************************************************************)
RECURSIVE MaxRowid(_)
MaxRowid(rows) ==
    IF rows = <<>> THEN 0
    ELSE LET m == MaxRowid(Tail(rows))
         IN  IF Head(rows).id > m THEN Head(rows).id ELSE m

\* faulty variant: a plain INTEGER PRIMARY KEY, which reuses the rowids of deleted rows
NextRowidPlain(rows, seq) == MaxRowid(rows) + 1

\* id INTEGER PRIMARY KEY AUTOINCREMENT: one more than the largest rowid the
\* table ever held, which sqlite_sequence remembers across deletes
NextRowid(rows, seq) ==
    (IF seq > MaxRowid(rows) THEN seq ELSE MaxRowid(rows)) + 1

\* faulty variant: sqlite_sequence is never written
SequenceAfterStale(seq, id) == seq

\* AUTOINCREMENT: a committed insert leaves its rowid in sqlite_sequence, and a
\* delete never lowers it
SequenceAfter(seq, id) == IF id > seq THEN id ELSE seq

\* faulty variant: subcategory and note bound to each other's column
InsertRowSwapped(id, args) ==
    [id |-> id, date |-> args[1], amount |-> args[2], category |-> args[3],
     subcategory |-> args[5], note |-> args[4]]

\* INSERT INTO expenses(date, amount, category, subcategory, note) VALUES (?,?,?,?,?)
InsertRow(id, args) ==
    [id |-> id, date |-> args[1], amount |-> args[2], category |-> args[3],
     subcategory |-> args[4], note |-> args[5]]

\* INSERT INTO expenses(date, amount, category) VALUES ('2000-01-01', 0, 'test'):
\* the columns left out take their DEFAULT ''
\* "2000-01-01"
TestRow(id) ==
    [id |-> id, date |-> <<50, 48, 48, 48, 45, 48, 49, 45, 48, 49>>,
     amount |-> AmtZero, category |-> "test", subcategory |-> "", note |-> ""]

\* DELETE FROM expenses WHERE category = 'test'
DeleteTest(rows) == SelectSeq(rows, LAMBDA r : r.category # "test")

\* SELECT id, date, amount, category, subcategory, note ... ; dict(row)
RowDict(r) ==
    [id |-> r.id, date |-> r.date, amount |-> r.amount, category |-> r.category,
     subcategory |-> r.subcategory, note |-> r.note]

\* faulty variant: ORDER BY date DESC alone, equal dates left in rowid order
RowBeforeDateOnly(a, b) ==
    LET c == LexCmp(a.date, b.date)
    IN  c > 0 \/ (c = 0 /\ a.id < b.id)

\* ORDER BY date DESC, id DESC: a comes before b
RowBefore(a, b) ==
    LET c == LexCmp(a.date, b.date)
    IN  c > 0 \/ (c = 0 /\ a.id > b.id)

RECURSIVE SortedInsert(_, _)
SortedInsert(r, sorted) ==
    IF sorted = <<>> THEN <<r>>
    ELSE IF RowBefore(r, Head(sorted)) THEN <<r>> \o sorted
    ELSE <<Head(sorted)>> \o SortedInsert(r, Tail(sorted))

RECURSIVE OrderBy(_)
OrderBy(rows) ==
    IF rows = <<>> THEN <<>> ELSE SortedInsert(Head(rows), OrderBy(Tail(rows)))

\* the query of list_expenses
SelectRange(rows, start_date, end_date) ==
    LET hit == SelectSeq(rows, LAMBDA r : Between(r.date, start_date, end_date))
        ord == OrderBy(hit)
    IN  [i \in 1..Len(ord) |-> RowDict(ord[i])]

\* `if category:` None and "" are both falsy
Truthy(category) == category # <<>> /\ category[1] # ""

\* the WHERE clause summarize builds
SummaryWhere(r, start_date, end_date, category) ==
    /\ Between(r.date, start_date, end_date)
    /\ Truthy(category) => r.category = category[1]

\* SUM(amount): the accumulator takes the rows in rowid order
RECURSIVE SumAmount(_, _)
SumAmount(rows, acc) ==
    IF rows = <<>> THEN acc
    ELSE SumAmount(Tail(rows), FloatAdd(acc, Head(rows).amount))

\* faulty variant: the aggregates taken over every matching row, not over the group
GroupDictAllRows(rows, c) ==
    [category |-> c, total_amount |-> SumAmount(rows, AmtZero), count |-> Len(rows)]

\* one row of GROUP BY category
GroupDict(rows, c) ==
    LET grp == SelectSeq(rows, LAMBDA r : r.category = c)
    IN  [category |-> c, total_amount |-> SumAmount(grp, AmtZero), count |-> Len(grp)]

\* the groups of the query of summarize
SummaryGroups(rows, start_date, end_date, category) ==
    LET hit == SelectSeq(rows, LAMBDA r : SummaryWhere(r, start_date, end_date, category))
    IN  {GroupDict(hit, c) : c \in {hit[i].category : i \in 1..Len(hit)}}

\* ORDER BY total_amount DESC leaves the order of equal totals open
TotalDesc(s) ==
    \A i \in 1..Len(s) - 1 : DblCmp(s[i].total_amount, s[i + 1].total_amount) >= 0

SummaryOrders(groups) ==
    {s \in [1..Cardinality(groups) -> groups] :
        /\ \A i, j \in DOMAIN s : i # j => s[i] # s[j]
        /\ TotalDesc(s)}

(***************************************************************************)
(* Exceptions and the handlers' except clauses                             *)
(***************************************************************************)
ReadonlyError ==
    [cls |-> "OperationalError", words |-> <<"attempt", "to", "write", "a", "readonly", "database">>]
LockedError ==
    [cls |-> "OperationalError", words |-> <<"database", "is", "locked">>]
DiskError ==
    [cls |-> "DatabaseError", words |-> <<"database", "disk", "image", "is", "malformed">>]

StoreErrors == {ReadonlyError, LockedError, DiskError}

\* str(e)
RECURSIVE Str(_)
Str(words) ==
    IF words = <<>> THEN ""
    ELSE IF Len(words) = 1 THEN words[1]
    ELSE words[1] \o " " \o Str(Tail(words))

\* "readonly" in msg
HasReadonly(e) == \E i \in DOMAIN e.words : e.words[i] = "readonly"

\* faulty variant: only `except aiosqlite.OperationalError`, anything else propagates
AddExceptNarrow(e) ==
    IF e.cls = "OperationalError"
    THEN IF HasReadonly(e)
         THEN [status |-> "error", message |-> "Database is read-only. Check file permissions."]
         ELSE [status |-> "error", message |-> "Database operational error: " \o Str(e.words)]
    ELSE [propagated |-> e.cls]

\* the except clauses of add_expense
AddExcept(e) ==
    IF e.cls = "OperationalError"
    THEN IF HasReadonly(e)
         THEN [status |-> "error", message |-> "Database is read-only. Check file permissions."]
         ELSE [status |-> "error", message |-> "Database operational error: " \o Str(e.words)]
    ELSE [status |-> "error", message |-> "Unexpected error: " \o Str(e.words)]

\* the except clause of list_expenses
ListExcept(e) ==
    [status |-> "error", message |-> "Error listing expenses: " \o Str(e.words)]

\* the except clause of summarize
SummarizeExcept(e) ==
    [status |-> "error", message |-> "Error summarizing expenses: " \o Str(e.words)]

(***************************************************************************)
(* The categories resource                                                 *)
(***************************************************************************)
DefaultCategories ==
    <<"Food & Dining", "Transportation", "Shopping", "Entertainment",
      "Bills & Utilities", "Healthcare", "Travel", "Education", "Business", "Other">>

\* the text of categories.json when it is there
CatFileText == "{\"categories\": [\"Rent\", \"Fun\"]}"

PermissionError ==
    [cls |-> "PermissionError", words |-> <<"[Errno 13]", "Permission", "denied:", "'categories.json'">>]
AsyncWithError ==
    [cls |-> "TypeError",
     words |-> <<"'_io.TextIOWrapper'", "object", "does", "not", "support", "the",
                 "asynchronous", "context", "manager", "protocol">>]

JsonStr(s) == "\"" \o s \o "\""

RECURSIVE JsonItems(_)
JsonItems(list) ==
    IF list = <<>> THEN ""
    ELSE IF Len(list) = 1 THEN "    " \o JsonStr(list[1])
    ELSE "    " \o JsonStr(list[1]) \o ",\n" \o JsonItems(Tail(list))

\* json.dumps({key: list}, indent=2)
JsonDumpsIndent2(key, list) ==
    "{\n  " \o JsonStr(key) \o ": [\n" \o JsonItems(list) \o "\n  ]\n}"

\* json.dumps({key: text})
JsonDumps(key, text) == "{" \o JsonStr(key) \o ": " \o JsonStr(text) \o "}"

\* open(CATEGORIES_PATH, "r", encoding="utf-8") in a worker thread
OpenFile(file) ==
    IF file = "unreadable" THEN [raised |-> PermissionError]
    ELSE [raised |-> NoExc, cls |-> "_io.TextIOWrapper"]

\* the classes with __aenter__ and __aexit__, which `async with` needs
AsyncContextManagers == {"aiosqlite.Connection", "aiosqlite.Cursor"}

CategoriesExcept(e) ==
    [out |-> JsonDumps("error", "Could not load categories: " \o Str(e.words)), raised |-> e]

\* the body of categories()
CategoriesBody(file) ==
    IF file # "absent"
    THEN LET f == OpenFile(file)
         IN  IF f.raised # NoExc THEN CategoriesExcept(f.raised)
             ELSE IF f.cls \notin AsyncContextManagers THEN CategoriesExcept(AsyncWithError)
             ELSE [out |-> CatFileText, raised |-> NoExc]
    ELSE [out |-> JsonDumpsIndent2("categories", DefaultCategories), raised |-> NoExc]

(***************************************************************************)
(* init_db                                                                 *)
(***************************************************************************)
\* the table after the self-test of init_db commits
SelfTest(rows, id) == DeleteTest(Append(rows, TestRow(id)))

\* the self-test INSERT: takes the write lock and a rowid
init_db_execute ==
    /\ initPc = "idle"
    /\ writer = "none"
    /\ initRuns < MaxInit
    /\ initPc' = "testing"
    /\ writer' = "init_db"
    /\ initRowid' = NextRowid(expenses, sqliteSeq)
    /\ UNCHANGED <<expenses, sqliteSeq, pc, pend, initRuns, catFile, resp, history>>

\* the DELETE and db.commit()
init_db_commit ==
    /\ initPc = "testing"
    /\ expenses' = SelfTest(expenses, initRowid)
    /\ sqliteSeq' = SequenceAfter(sqliteSeq, initRowid)
    /\ writer' = "none"
    /\ initPc' = "idle"
    /\ initRowid' = 0
    /\ initRuns' = initRuns + 1
    /\ history' = Append(history, [op |-> "init_db", id |-> initRowid])
    /\ resp' = NoResp
    /\ UNCHANGED <<pc, pend, catFile>>

\* except Exception: print and raise; an open transaction is rolled back
init_db_except(e) ==
    /\ initRuns < MaxInit
    /\ initPc' = "idle"
    /\ initRowid' = 0
    /\ writer' = IF initPc = "testing" THEN "none" ELSE writer
    /\ resp' = [op |-> "init_db", raised |-> e]
    /\ UNCHANGED <<expenses, sqliteSeq, pc, pend, initRuns, catFile, history>>

(***************************************************************************)
(* The tools                                                               *)
(***************************************************************************)
\* the server answers once the module's start-up init_db has returned
Serving(p) == initRuns >= 1 /\ pc[p] = "idle"

Committed == Len(SelectSeq(history, LAMBDA h : h.op = "add_expense"))
Pending == Cardinality({q \in Clients : pc[q] = "inserted"})

\* connect and db.execute(INSERT ...): takes the write lock and a rowid
add_expense_execute(p, args) ==
    /\ Serving(p)
    /\ writer = "none"
    /\ Committed + Pending < MaxRows
    /\ LET id == NextRowid(expenses, sqliteSeq)
       IN  pend' = [pend EXCEPT ![p] =
                       [args |-> args, row |-> InsertRow(id, args), lastrowid |-> id]]
    /\ pc' = [pc EXCEPT ![p] = "inserted"]
    /\ writer' = p
    /\ resp' = NoResp
    /\ UNCHANGED <<expenses, sqliteSeq, initPc, initRowid, initRuns, catFile, history>>

\* db.commit() and the return
add_expense_commit(p) ==
    /\ pc[p] = "inserted"
    /\ expenses' = Append(expenses, pend[p].row)
    /\ sqliteSeq' = SequenceAfter(sqliteSeq, pend[p].row.id)
    /\ writer' = "none"
    /\ pc' = [pc EXCEPT ![p] = "idle"]
    /\ pend' = [pend EXCEPT ![p] = NoPend]
    /\ resp' = [op |-> "add_expense", by |-> p, args |-> pend[p].args,
                out |-> [status |-> "success", id |-> pend[p].lastrowid,
                         message |-> "Expense added successfully"],
                raised |-> NoExc]
    /\ history' = Append(history, [op |-> "add_expense", by |-> p, id |-> pend[p].row.id,
                                   ret |-> pend[p].lastrowid, args |-> pend[p].args])
    /\ UNCHANGED <<initPc, initRowid, initRuns, catFile>>

\* connect or db.execute raises
add_expense_execute_except(p, args, e) ==
    /\ Serving(p)
    /\ resp' = [op |-> "add_expense", by |-> p, args |-> args,
                out |-> AddExcept(e), raised |-> e]
    /\ UNCHANGED <<expenses, sqliteSeq, writer, pc, pend, initPc, initRowid,
                   initRuns, catFile, history>>

\* db.commit() raises: closing the connection rolls the insert back
add_expense_commit_except(p, e) ==
    /\ pc[p] = "inserted"
    /\ writer' = "none"
    /\ pc' = [pc EXCEPT ![p] = "idle"]
    /\ pend' = [pend EXCEPT ![p] = NoPend]
    /\ resp' = [op |-> "add_expense", by |-> p, args |-> pend[p].args,
                out |-> AddExcept(e), raised |-> e]
    /\ UNCHANGED <<expenses, sqliteSeq, initPc, initRowid, initRuns, catFile, history>>

list_expenses(p, start_date, end_date) ==
    /\ Serving(p)
    /\ resp' = [op |-> "list_expenses", by |-> p, args |-> <<start_date, end_date>>,
                out |-> [status |-> "success",
                         expenses |-> SelectRange(expenses, start_date, end_date)],
                raised |-> NoExc]
    /\ UNCHANGED <<expenses, sqliteSeq, writer, pc, pend, initPc, initRowid,
                   initRuns, catFile, history>>

list_expenses_except(p, start_date, end_date, e) ==
    /\ Serving(p)
    /\ resp' = [op |-> "list_expenses", by |-> p, args |-> <<start_date, end_date>>,
                out |-> ListExcept(e), raised |-> e]
    /\ UNCHANGED <<expenses, sqliteSeq, writer, pc, pend, initPc, initRowid,
                   initRuns, catFile, history>>

summarize(p, start_date, end_date, category) ==
    /\ Serving(p)
    /\ \E s \in SummaryOrders(SummaryGroups(expenses, start_date, end_date, category)) :
          resp' = [op |-> "summarize", by |-> p,
                   args |-> <<start_date, end_date, category>>,
                   out |-> [status |-> "success", summary |-> s],
                   raised |-> NoExc]
    /\ UNCHANGED <<expenses, sqliteSeq, writer, pc, pend, initPc, initRowid,
                   initRuns, catFile, history>>

summarize_except(p, start_date, end_date, category, e) ==
    /\ Serving(p)
    /\ resp' = [op |-> "summarize", by |-> p,
                args |-> <<start_date, end_date, category>>,
                out |-> SummarizeExcept(e), raised |-> e]
    /\ UNCHANGED <<expenses, sqliteSeq, writer, pc, pend, initPc, initRowid,
                   initRuns, catFile, history>>

categories(p) ==
    /\ Serving(p)
    /\ LET r == CategoriesBody(catFile)
       IN  resp' = [op |-> "categories", by |-> p, args |-> <<catFile>>,
                    out |-> r.out, raised |-> r.raised]
    /\ UNCHANGED <<expenses, sqliteSeq, writer, pc, pend, initPc, initRowid,
                   initRuns, catFile, history>>

\* categories.json is put in place, removed or made unreadable
set_categories_file(f) ==
    /\ f # catFile
    /\ catFile' = f
    /\ UNCHANGED <<expenses, sqliteSeq, writer, pc, pend, initPc, initRowid,
                   initRuns, resp, history>>

(***************************************************************************)
(* Specifications                                                          *)
(***************************************************************************)
\* a store nobody has opened yet
InitFresh ==
    /\ expenses = <<>>
    /\ sqliteSeq = 0
    /\ writer = "none"
    /\ pc = [p \in Clients |-> "idle"]
    /\ pend = [p \in Clients |-> NoPend]
    /\ initPc = "idle"
    /\ initRowid = 0
    /\ initRuns = 0
    /\ catFile = "absent"
    /\ resp = NoResp
    /\ history = <<>>

\* the server after its import: init_db has run once on a new store
Init ==
    /\ expenses = SelfTest(<<>>, NextRowid(<<>>, 0))
    /\ sqliteSeq = SequenceAfter(0, NextRowid(<<>>, 0))
    /\ writer = "none"
    /\ pc = [p \in Clients |-> "idle"]
    /\ pend = [p \in Clients |-> NoPend]
    /\ initPc = "idle"
    /\ initRowid = 0
    /\ initRuns = 1
    /\ catFile = "absent"
    /\ resp = NoResp
    /\ history = <<[op |-> "init_db", id |-> NextRowid(<<>>, 0)]>>

\* one client calling the three tools, the store failing at will
Next ==
    \/ \E args \in AddArgs : add_expense_execute("client1", args)
    \/ add_expense_commit("client1")
    \/ \E e \in StoreErrors : add_expense_execute_except("client1", ScenarioArgs, e)
    \/ \E e \in StoreErrors : add_expense_commit_except("client1", e)
    \/ \E start_date, end_date \in Dates : list_expenses("client1", start_date, end_date)
    \/ list_expenses_except("client1", DJan05, DJan31, DiskError)
    \/ \E r \in SummaryRanges, c \in CategoryArgs : summarize("client1", r[1], r[2], c)
    \/ summarize_except("client1", DJan05, DJan31, <<>>, LockedError)

Spec == Init /\ [][Next]_vars

\* two clients, restarts that run init_db again, and the categories resource
NextConc ==
    \/ init_db_execute
    \/ init_db_commit
    \/ init_db_except(ReadonlyError)
    \/ \E p \in Clients :
        \/ \E args \in ConcArgs : add_expense_execute(p, args)
        \/ add_expense_commit(p)
        \/ add_expense_execute_except(p, ScenarioArgs, LockedError)
        \/ add_expense_commit_except(p, DiskError)
        \/ list_expenses(p, DJan01, DJan31)
        \/ categories(p)
    \/ \E f \in {"absent", "present", "unreadable"} : set_categories_file(f)

SpecConc == InitFresh /\ [][NextConc]_vars

(***************************************************************************)
(* Properties                                                              *)
(***************************************************************************)
\* a <= b as strings: a is a prefix of b, or a has the smaller character at the
\* first place where they differ
LexLeq(a, b) ==
    \E k \in 0..Len(a) :
        /\ k <= Len(b)
        /\ \A i \in 1..k : a[i] = b[i]
        /\ \/ k = Len(a)
           \/ k < Len(b) /\ a[k + 1] < b[k + 1]

InRange(d, start_date, end_date) == LexLeq(start_date, d) /\ LexLeq(d, end_date)

\* the stored rows dated within the range of the last request
RowsInRange ==
    {i \in DOMAIN expenses : InRange(expenses[i].date, resp.args[1], resp.args[2])}

Succeeded(op) == resp.op = op /\ resp.raised = NoExc /\ resp.out.status = "success"

AddsInHistory == {i \in DOMAIN history : history[i].op = "add_expense"}

\* the record an insert with these arguments must read back as
Expected(id, args) ==
    [id |-> id, date |-> args[1], amount |-> args[2], category |-> args[3],
     subcategory |-> args[4], note |-> args[5]]

\* C1: once add_expense has returned success with id i, every later
\* list_expenses whose range holds the date returns exactly one record with id i,
\* and that record has the inserted date, amount, category, subcategory and note,
\* whatever add_expense, list_expenses and summarize calls came in between.
RoundTrip ==
    Succeeded("list_expenses") =>
        \A h \in AddsInHistory :
            InRange(history[h].args[1], resp.args[1], resp.args[2]) =>
                LET out == resp.out.expenses
                    hits == {k \in DOMAIN out : out[k].id = history[h].ret}
                IN  /\ Cardinality(hits) = 1
                    /\ \A k \in hits : out[k] = Expected(history[h].ret, history[h].args)

\* C1 witness: a list that returns the first of two inserts after the second
RoundTripWitness ==
    /\ Succeeded("list_expenses")
    /\ Cardinality(AddsInHistory) >= 2
    /\ \E h \in AddsInHistory :
          /\ h + 1 \in AddsInHistory
          /\ InRange(history[h].args[1], resp.args[1], resp.args[2])
          /\ \E k \in DOMAIN resp.out.expenses : resp.out.expenses[k].id = history[h].ret

\* C5: add_expense, list_expenses and summarize always return a dict whose status
\* is "success" or "error", never an exception; when the store raised, the status
\* is "error" and there is a message.
ErrorEnvelope ==
    resp.op \in {"add_expense", "list_expenses", "summarize"} =>
        /\ "status" \in DOMAIN resp.out
        /\ resp.out.status \in {"success", "error"}
        /\ resp.raised # NoExc =>
              /\ resp.out.status = "error"
              /\ "message" \in DOMAIN resp.out
              /\ resp.out.message # ""

\* C5 witness: add_expense answered an error that is not an OperationalError
ErrorEnvelopeWitness ==
    /\ resp.op = "add_expense"
    /\ resp.raised = DiskError
    /\ resp.out.status = "error"

\* C7: with any string as the category argument, a successful summarize has at
\* most one group, and the group's category is that string.
CategoryFilter ==
    (Succeeded("summarize") /\ resp.args[3] # <<>>) =>
        /\ Len(resp.out.summary) <= 1
        /\ \A k \in DOMAIN resp.out.summary :
              resp.out.summary[k].category = resp.args[3][1]

\* the exact sum of amounts, with no rounding
RECURSIVE RealSum(_)
RealSum(amounts) ==
    IF amounts = <<>> THEN AmtZero ELSE ExactAdd(Head(amounts), RealSum(Tail(amounts)))

\* the amounts of the rows of the range that have category c
AmountsOf(c) ==
    LET rows == SelectSeq(expenses, LAMBDA r :
                    InRange(r.date, resp.args[1], resp.args[2]) /\ r.category = c)
    IN  [i \in 1..Len(rows) |-> rows[i].amount]

\* the amounts list_expenses returns for the range
ListedAmounts ==
    LET out == SelectRange(expenses, resp.args[1], resp.args[2])
    IN  [i \in 1..Len(out) |-> out[i].amount]

\* one group per category of the range, each with the count of its rows
GroupsAndCounts ==
    LET s == resp.out.summary
    IN  /\ {s[k].category : k \in DOMAIN s} = {expenses[i].category : i \in RowsInRange}
        /\ \A j, k \in DOMAIN s : s[j].category = s[k].category => j = k
        /\ \A k \in DOMAIN s : s[k].count = Len(AmountsOf(s[k].category))

\* the totals are the exact sums, group by group and over the whole range
TotalsExact ==
    LET s == resp.out.summary
    IN  /\ \A k \in DOMAIN s : s[k].total_amount = RealSum(AmountsOf(s[k].category))
        /\ RealSum([k \in DOMAIN s |-> s[k].total_amount]) = RealSum(ListedAmounts)

\* C8 as stated: for every store content and range, summarize without a category
\* has one group per category of the range, with the count of its rows and the sum
\* of their amounts, and the totals add up to the sum of the amounts list_expenses
\* returns.
AggregateExact ==
    (Succeeded("summarize") /\ resp.args[3] = <<>>) => GroupsAndCounts /\ TotalsExact

\* the amounts of the range add up to less than 2^52, so that no double addition
\* rounds
SumsWithoutRounding == RealSum(ListedAmounts).hi = 0

\* C8 amended: the groups and counts are as stated for every store content; the
\* totals are the exact sums when the amounts of the range are multiples of 0.5
\* that add up to less than 2^52.
AggregateRepresentable ==
    (Succeeded("summarize") /\ resp.args[3] = <<>>) =>
        /\ GroupsAndCounts
        /\ SumsWithoutRounding => TotalsExact

\* C8 witness: a summary of two rows of one category, summed without rounding
AggregateWitness ==
    /\ Succeeded("summarize")
    /\ resp.args[3] = <<>>
    /\ SumsWithoutRounding
    /\ \E k \in DOMAIN resp.out.summary :
          /\ resp.out.summary[k].count = 2
          /\ resp.out.summary[k].total_amount = [hi |-> 0, lo |-> 170]

\* C9: list_expenses returns success with exactly the stored rows whose date d has
\* start_date <= d <= end_date as strings; with no row in the range list_expenses
\* and summarize return success with an empty list.
InclusiveRange ==
    /\ (resp.op = "list_expenses" /\ resp.raised = NoExc) =>
          /\ resp.out.status = "success"
          /\ {resp.out.expenses[k] : k \in DOMAIN resp.out.expenses}
                = {RowDict(expenses[i]) : i \in RowsInRange}
          /\ Len(resp.out.expenses) = Cardinality(RowsInRange)
    /\ (resp.op = "summarize" /\ resp.raised = NoExc /\ RowsInRange = {}) =>
          /\ resp.out.status = "success"
          /\ resp.out.summary = <<>>

\* C9 witness: a one-day range that returns the row of that day and leaves out
\* the row of another day
InclusiveRangeWitness ==
    /\ Succeeded("list_expenses")
    /\ resp.args[1] = resp.args[2]
    /\ Len(resp.out.expenses) = 1
    /\ resp.out.expenses[1].date = resp.args[1]
    /\ Len(expenses) = 2

\* C10: in a successful list_expenses result, of two records the earlier one has
\* the later date, or the same date and the higher id.
ResultOrdering ==
    Succeeded("list_expenses") =>
        LET out == resp.out.expenses
        IN  \A j, k \in DOMAIN out :
                j < k =>
                    \/ ~LexLeq(out[j].date, out[k].date)
                    \/ out[j].date = out[k].date /\ out[j].id > out[k].id

\* C10 witness: two records of one date, the later insert first
ResultOrderingWitness ==
    /\ Succeeded("list_expenses")
    /\ Len(resp.out.expenses) = 2
    /\ resp.out.expenses[1].date = resp.out.expenses[2].date
    /\ resp.out.expenses[1].id > resp.out.expenses[2].id
\* C2 as stated: a run of init_db on a store that was initialised before leaves
\* the rows of expenses as they were, whatever their category.
InitKeepsRows ==
    [][(initRuns >= 1 /\ initPc = "testing" /\ initRuns' = initRuns + 1)
          => expenses' = expenses]_vars

\* C3: the ids of the committed inserts, those of init_db's self-test included,
\* increase strictly in commit order, so no id is assigned twice; the id a
\* successful add_expense returns is the id of the row that call inserted.
UniqueIncreasingIds ==
    /\ \A j, k \in DOMAIN history : j < k => history[j].id < history[k].id
    /\ \A h \in AddsInHistory : history[h].ret = history[h].id
    /\ Succeeded("add_expense") =>
          LET own == {i \in DOMAIN expenses : expenses[i].id = resp.out.id}
          IN  /\ Cardinality(own) = 1
              /\ \A i \in own : RowDict(expenses[i]) = Expected(resp.out.id, resp.args)

\* C3 witness: both clients inserted, with a run of init_db between the two, and
\* the second client is answered while the first starts another insert
UniqueIncreasingIdsWitness ==
    /\ Succeeded("add_expense")
    /\ \E i, j, k \in DOMAIN history :
          /\ i < j /\ j < k
          /\ history[i].op = "add_expense"
          /\ history[j].op = "init_db"
          /\ history[k].op = "add_expense"
          /\ history[i].by # history[k].by
          /\ history[i].id > 1

\* a new store, init_db run once, and then the scenario's insert as first insert
FirstInsertDone ==
    /\ initRuns = 1
    /\ Len(history) = 2
    /\ history[1].op = "init_db"
    /\ history[2].op = "add_expense"
    /\ history[2].args = ScenarioArgs

\* the scenario with id n: the insert returns n, and the list of January returns
\* the one record with id n and the inserted fields
FirstInsert(n) ==
    FirstInsertDone =>
        /\ history[2].ret = n
        /\ (resp.op = "add_expense" /\ resp.raised = NoExc) =>
              resp.out = [status |-> "success", id |-> n,
                          message |-> "Expense added successfully"]
        /\ (resp.op = "list_expenses" /\ resp.raised = NoExc) =>
              resp.out = [status |-> "success",
                          expenses |-> <<[id |-> n, date |-> DJan05, amount |-> Amt42_5,
                                          category |-> "Food & Dining",
                                          subcategory |-> "", note |-> "lunch"]>>]

\* C4 as stated: the first insert on a new store returns id 1, and the list
\* returns one record with id 1.
FirstInsertIsOne == FirstInsert(1)

\* C4 amended: the first insert on a new store returns id 2, the self-test of
\* init_db having used id 1, and the list returns one record with id 2.
FirstInsertIsTwo == FirstInsert(2)

\* C4 witness: the list that follows the first insert
FirstInsertWitness ==
    /\ FirstInsertDone
    /\ Succeeded("list_expenses")
    /\ Len(resp.out.expenses) = 1

\* json.dumps of the built-in list with indent=2, written out
DefaultCategoriesText ==
    "{\n  \"categories\": [\n    \"Food & Dining\",\n    \"Transportation\",\n    \"Shopping\",\n    \"Entertainment\",\n    \"Bills & Utilities\",\n    \"Healthcare\",\n    \"Travel\",\n    \"Education\",\n    \"Business\",\n    \"Other\"\n  ]\n}"

\* C6 as stated: categories() returns the text of categories.json when the file
\* is there and readable, the JSON text of the built-in list when it is absent,
\* and the error document only when reading the file fails.
CategoriesPolicy ==
    resp.op = "categories" =>
        /\ resp.args[1] = "present" => resp.out = CatFileText
        /\ resp.args[1] = "absent" => resp.out = DefaultCategoriesText
        /\ resp.raised # NoExc => resp.args[1] = "unreadable"

====
